---- MODULE Spec2Model ----
(***************************************************************************)
(* A model of the router of src/rust/src/lib.rs: the per-method route      *)
(* tables, the bounded result cache, the process-wide singleton and the    *)
(* C boundary with its result envelopes.                                   *)
(*                                                                         *)
(* Text is modelled as it crosses the boundary: a string is a sequence of  *)
(* one-character strings (its bytes), so that the cache key, the pattern   *)
(* syntax and the JSON texts are computed byte by byte as the code does.   *)
(***************************************************************************)
EXTENDS Integers, Sequences, FiniteSets, TLC

VARIABLES ROUTER, ROUTER_INIT, call, result, heap, inflight

vars == <<ROUTER, ROUTER_INIT, call, result, heap, inflight>>

----------------------------------------------------------------------------
(* Bytes and C strings                                                     *)

\* A byte that is not valid UTF-8 on its own (0xFF).
xFF == "xFF"

\* The NUL byte.
NUL == "x00"

\* A (possibly null) pointer to a C string.
NullPtr == [null |-> TRUE, bytes |-> <<>>]

Ptr(s) == [null |-> FALSE, bytes |-> s]

\* CStr::to_str / str::from_utf8: fails on a byte sequence that is not UTF-8.
to_str(bytes) ==
    IF \E i \in 1..Len(bytes) : bytes[i] = xFF
    THEN [ok |-> FALSE, s |-> <<>>]
    ELSE [ok |-> TRUE, s |-> bytes]

\* The decimal digits of a natural number, as text.
RECURSIVE Digits(_)
Digits(n) ==
    IF n < 10 THEN <<ToString(n)>> ELSE Digits(n \div 10) \o <<ToString(n % 10)>>

\* The bytes of the model's texts in byte order (for the ordering of JSON
\* object keys).
Alphabet ==
    <<"*", "/", "0", "1", "2", "3", "4", "5", "6", "7", "8", "9", ":",
      "G", "P", "a", "b", "i", "j", "n", "r", "u", "x">>

Code(c) == IF \E i \in 1..Len(Alphabet) : Alphabet[i] = c
           THEN CHOOSE i \in 1..Len(Alphabet) : Alphabet[i] = c
           ELSE 0

EmptyMap == [k \in {} |-> <<>>]

\* HashMap::insert: the map with key bound to value, in place of any old one.
MapInsert(map, key, value) == (key :> value) @@ map

RECURSIVE LessStr(_, _)
LessStr(s, t) ==
    IF t = <<>> THEN FALSE
    ELSE IF s = <<>> THEN TRUE
    ELSE IF Head(s) = Head(t) THEN LessStr(Tail(s), Tail(t))
    ELSE Code(Head(s)) < Code(Head(t))

----------------------------------------------------------------------------
(* The pattern matcher (matchit::Router<String>), one per method.          *)
(* A trie is modelled by what it holds: a function from the inserted       *)
(* routes to their values.                                                 *)

MatchitRouter_new == [r \in {} |-> <<>>]

\* The segments of a route or path: the text split at "/".
RECURSIVE Split(_)
Split(s) ==
    IF s = <<>> THEN << <<>> >>
    ELSE IF Head(s) = "/" THEN << <<>> >> \o Split(Tail(s))
    ELSE LET r == Split(Tail(s)) IN << <<Head(s)>> \o Head(r) >> \o Tail(r)

Kind(seg) ==
    IF seg # <<>> /\ Head(seg) = ":" THEN "param"
    ELSE IF seg # <<>> /\ Head(seg) = "*" THEN "catchall"
    ELSE "static"

\* static > named parameter > catch-all
Rank(seg) == CASE Kind(seg) = "static" -> 0
               [] Kind(seg) = "param" -> 1
               [] Kind(seg) = "catchall" -> 2

\* A parameter needs a name; a catch-all is the last segment.
ValidRoute(route) ==
    LET segs == Split(route) IN
    \A i \in 1..Len(segs) :
        \/ Kind(segs[i]) = "static"
        \/ /\ Len(segs[i]) >= 2
           /\ Kind(segs[i]) = "catchall" => i = Len(segs)

\* A route with its parameter names erased: two routes of one shape accept
\* the same paths and conflict.
Shape(route) ==
    LET segs == Split(route) IN
    [i \in 1..Len(segs) |->
        IF Kind(segs[i]) = "static" THEN segs[i] ELSE <<Head(segs[i])>>]

Conflicts(trie, route) == \E r \in DOMAIN trie : Shape(r) = Shape(route)

\* matchit insert: Err on a malformed or conflicting route, the trie as it was.
Insert(trie, route, value) ==
    IF ~ValidRoute(route) \/ Conflicts(trie, route)
    THEN [ok |-> FALSE, trie |-> trie]
    ELSE [ok |-> TRUE, trie |-> (route :> value) @@ trie]

RECURSIVE JoinSlash(_)
JoinSlash(segs) ==
    IF Len(segs) = 1 THEN Head(segs)
    ELSE Head(segs) \o <<"/">> \o JoinSlash(Tail(segs))

\* Does the pattern accept the whole path?
RECURSIVE Accepts(_, _)
Accepts(psegs, segs) ==
    IF psegs = <<>> THEN segs = <<>>
    ELSE IF segs = <<>> THEN FALSE
    ELSE CASE Kind(Head(psegs)) = "static" ->
                Head(psegs) = Head(segs) /\ Accepts(Tail(psegs), Tail(segs))
           [] Kind(Head(psegs)) = "param" ->
                Head(segs) # <<>> /\ Accepts(Tail(psegs), Tail(segs))
           [] Kind(Head(psegs)) = "catchall" ->
                JoinSlash(segs) # <<>>

\* The parameter bindings of an accepted path, in the pattern's order,
\* values verbatim.
RECURSIVE Bindings(_, _)
Bindings(psegs, segs) ==
    IF psegs = <<>> \/ segs = <<>> THEN <<>>
    ELSE CASE Kind(Head(psegs)) = "static" -> Bindings(Tail(psegs), Tail(segs))
           [] Kind(Head(psegs)) = "param" ->
                << <<Tail(Head(psegs)), Head(segs)>> >>
                    \o Bindings(Tail(psegs), Tail(segs))
           [] Kind(Head(psegs)) = "catchall" ->
                << <<Tail(Head(psegs)), JoinSlash(segs)>> >>

\* Segment by segment from the left, the more specific kind wins.
RECURSIVE Precedes(_, _)
Precedes(psegs, qsegs) ==
    IF psegs = <<>> \/ qsegs = <<>> THEN FALSE
    ELSE IF Rank(Head(psegs)) # Rank(Head(qsegs))
         THEN Rank(Head(psegs)) < Rank(Head(qsegs))
         ELSE Precedes(Tail(psegs), Tail(qsegs))

Candidates(trie, path) ==
    {r \in DOMAIN trie : Accepts(Split(r), Split(path))}

BestRoute(trie, path) ==
    LET cands == Candidates(trie, path) IN
    CHOOSE r \in cands : \A q \in cands \ {r} : Precedes(Split(r), Split(q))

\* matchit at: the value and bindings of the best accepting route, or Err.
At(trie, path) ==
    IF Candidates(trie, path) = {}
    THEN [ok |-> FALSE, value |-> <<>>, params |-> <<>>]
    ELSE LET best == BestRoute(trie, path)
         IN [ok |-> TRUE, value |-> trie[best],
             params |-> Bindings(Split(best), Split(path))]

----------------------------------------------------------------------------
(* serde_json for the cached form of a match: the tuple                    *)
(* (String, Vec<(String, String)>) is the text ["h",[["k","v"],...]].      *)
(* No byte of the model's texts needs a JSON escape.                       *)

Quote == "\""

JsonString(s) == <<Quote>> \o s \o <<Quote>>

RECURSIVE JsonPairs(_)
JsonPairs(params) ==
    IF params = <<>> THEN <<>>
    ELSE <<"[">> \o JsonString(Head(params)[1]) \o <<",">>
            \o JsonString(Head(params)[2]) \o <<"]">>
            \o (IF Len(params) > 1 THEN <<",">> ELSE <<>>)
            \o JsonPairs(Tail(params))

\* The pairs in the order of their names.
RECURSIVE SortedPairs(_)
SortedPairs(ps) ==
    IF ps = <<>> THEN <<>>
    ELSE LET i == CHOOSE i \in 1..Len(ps) :
                    \A j \in 1..Len(ps) : ~LessStr(ps[j][1], ps[i][1])
         IN <<ps[i]>> \o SortedPairs(SubSeq(ps, 1, i - 1) \o SubSeq(ps, i + 1, Len(ps)))

\* to_string, were the params serialized as a map, in the order of the names.
to_string_sorted(res) ==
    <<"[">> \o JsonString(res.handler) \o <<",", "[">>
        \o JsonPairs(SortedPairs(res.params)) \o <<"]", "]">>

\* serde_json::to_string(&(handler_id, params))
to_string(res) ==
    <<"[">> \o JsonString(res.handler) \o <<",", "[">>
        \o JsonPairs(res.params) \o <<"]", "]">>

\* The parsers read the text s from position i and give the value read and
\* the position after it.
ParseFail == [ok |-> FALSE, val |-> <<>>, next |-> 0]

Parsed(val, next) == [ok |-> TRUE, val |-> val, next |-> next]

\* Binding a value to a name of the code: K applied to v.
Let(v, K(_)) == K(v)

\* The ? of a parser: what K makes of r if r succeeded, else the failure.
Then(r, K(_)) == IF r.ok THEN K(r) ELSE ParseFail

RECURSIVE QuotePos(_, _)
QuotePos(s, i) ==
    IF i > Len(s) THEN 0 ELSE IF s[i] = Quote THEN i ELSE QuotePos(s, i + 1)

At_(s, i, c) == i >= 1 /\ i <= Len(s) /\ s[i] = c

ParseString(s, i) ==
    IF ~At_(s, i, Quote) THEN ParseFail
    ELSE Let(QuotePos(s, i + 1), LAMBDA q :
            IF q = 0 THEN ParseFail ELSE Parsed(SubSeq(s, i + 1, q - 1), q + 1))

\* The byte c at position i, or failure.
Expect(s, i, c) == IF At_(s, i, c) THEN Parsed(<<>>, i + 1) ELSE ParseFail

\* ["k","v"]
ParsePair(s, i) ==
    Then(Expect(s, i, "["), LAMBDA a :
    Then(ParseString(s, a.next), LAMBDA k :
    Then(Expect(s, k.next, ","), LAMBDA b :
    Then(ParseString(s, b.next), LAMBDA v :
    Then(Expect(s, v.next, "]"), LAMBDA c :
    Parsed(<<k.val, v.val>>, c.next))))))

\* The pairs of an array whose "[" has been read, up to and with its "]".
RECURSIVE ParsePairs(_, _, _)
ParsePairs(s, i, first) ==
    IF At_(s, i, "]") /\ first THEN Parsed(<<>>, i + 1)
    ELSE Then(ParsePair(s, i), LAMBDA p :
            IF At_(s, p.next, ",")
            THEN Then(ParsePairs(s, p.next + 1, FALSE), LAMBDA more :
                    Parsed(<<p.val>> \o more.val, more.next))
            ELSE Then(Expect(s, p.next, "]"), LAMBDA e :
                    Parsed(<<p.val>>, e.next)))

\* ["h",[pairs]]
ParseCached(s) ==
    Then(Expect(s, 1, "["), LAMBDA a :
    Then(ParseString(s, a.next), LAMBDA h :
    Then(Expect(s, h.next, ","), LAMBDA b :
    Then(Expect(s, b.next, "["), LAMBDA c :
    Then(ParsePairs(s, c.next, TRUE), LAMBDA ps :
    Then(Expect(s, ps.next, "]"), LAMBDA d :
    Parsed([handler |-> h.val, params |-> ps.val], d.next)))))))

\* serde_json::from_str::<(String, Vec<(String, String)>)>(cached): the whole
\* text is one such tuple, or Err.
from_str(s) ==
    Let(ParseCached(s), LAMBDA r :
        IF r.ok /\ r.next = Len(s) + 1
        THEN [ok |-> TRUE, handler |-> r.val.handler, params |-> r.val.params]
        ELSE [ok |-> FALSE, handler |-> <<>>, params |-> <<>>])

----------------------------------------------------------------------------
(* The router engine: struct Router and its methods.                       *)

CacheCapacity == 1000

\* Option<T>: None, or Some(x).
None == <<>>

Some(x) == <<x>>

Router_new ==
    [routers |-> EmptyMap, route_cache |-> EmptyMap,
     max_cache_size |-> CacheCapacity]

\* add_route, were a registration to purge the cache.
add_route_clearing(self, method, path, handler_id) ==
    Let(IF method \in DOMAIN self.routers
        THEN self.routers
        ELSE MapInsert(self.routers, method, MatchitRouter_new), LAMBDA routers :
    Let(Insert(routers[method], path, handler_id), LAMBDA ins :
        [self |-> [self EXCEPT !.routers = [routers EXCEPT ![method] = ins.trie],
                               !.route_cache = EmptyMap],
         ok |-> ins.ok]))

\* add_route, were a refused insert to replace the route it collides with.
add_route_overwrite(self, method, path, handler_id) ==
    Let(IF method \in DOMAIN self.routers
        THEN self.routers
        ELSE MapInsert(self.routers, method, MatchitRouter_new), LAMBDA routers :
        [self |-> [self EXCEPT !.routers =
                        [routers EXCEPT ![method] = (path :> handler_id) @@ routers[method]]],
         ok |-> TRUE])

\* fn add_route: the trie of the method is looked up, or created, first; then
\* the route is inserted in it.
add_route(self, method, path, handler_id) ==
    Let(IF method \in DOMAIN self.routers
        THEN self.routers
        ELSE MapInsert(self.routers, method, MatchitRouter_new), LAMBDA routers :
    Let(Insert(routers[method], path, handler_id), LAMBDA ins :
        [self |-> [self EXCEPT !.routers = [routers EXCEPT ![method] = ins.trie]],
         ok |-> ins.ok]))

cache_key(method, path) == method \o <<":">> \o path

NoMatch == [some |-> FALSE, handler |-> <<>>, params |-> <<>>]

Found(handler, params) == [some |-> TRUE, handler |-> handler, params |-> params]

\* The cached result of the key, if there is one that deserializes.
CacheLookup(self, key) ==
    IF key \in DOMAIN self.route_cache
    THEN from_str(self.route_cache[key])
    ELSE [ok |-> FALSE, handler |-> <<>>, params |-> <<>>]

\* The live match in the method's trie, if the method has one.
LiveMatch(self, method, path) ==
    IF method \in DOMAIN self.routers
    THEN At(self.routers[method], path)
    ELSE [ok |-> FALSE, value |-> <<>>, params |-> <<>>]

\* CacheStore, were a full cache to evict an entry to make room.
CacheStore_evicting(self, key, res) ==
    IF Cardinality(DOMAIN self.route_cache) < self.max_cache_size
    THEN [self EXCEPT !.route_cache = MapInsert(self.route_cache, key, to_string(res))]
    ELSE [self EXCEPT !.route_cache =
            (key :> to_string(res))
                @@ [k \in DOMAIN self.route_cache
                        \ {CHOOSE x \in DOMAIN self.route_cache : TRUE} |->
                            self.route_cache[k]]]

\* CacheStore, were the room tested with <= instead of <.
CacheStore_off_by_one(self, key, res) ==
    IF Cardinality(DOMAIN self.route_cache) <= self.max_cache_size
    THEN [self EXCEPT !.route_cache = MapInsert(self.route_cache, key, to_string(res))]
    ELSE self

\* The cache after a live match: the result is stored while there is room.
CacheStore(self, key, res) ==
    IF Cardinality(DOMAIN self.route_cache) < self.max_cache_size
    THEN [self EXCEPT !.route_cache = MapInsert(self.route_cache, key, to_string(res))]
    ELSE self

\* match_route, were a miss stored too, as null, and served from the cache.
match_route_memoizing_none(self, method, path) ==
    IF /\ cache_key(method, path) \in DOMAIN self.route_cache
       /\ self.route_cache[cache_key(method, path)] = <<"n", "u", "l", "l">>
    THEN [self |-> self, ret |-> NoMatch]
    ELSE
    Let(CacheLookup(self, cache_key(method, path)), LAMBDA hit :
        IF hit.ok
        THEN [self |-> self, ret |-> Found(hit.handler, hit.params)]
        ELSE Let(LiveMatch(self, method, path), LAMBDA live :
                IF live.ok
                THEN [self |-> CacheStore(self, cache_key(method, path),
                                    [handler |-> live.value, params |-> live.params]),
                      ret |-> Found(live.value, live.params)]
                ELSE [self |-> [self EXCEPT !.route_cache =
                                    MapInsert(self.route_cache, cache_key(method, path),
                                              <<"n", "u", "l", "l">>)],
                      ret |-> NoMatch]))

\* fn match_route: the cache first, then the method's trie.
match_route(self, method, path) ==
    Let(CacheLookup(self, cache_key(method, path)), LAMBDA hit :
        IF hit.ok
        THEN [self |-> self, ret |-> Found(hit.handler, hit.params)]
        ELSE Let(LiveMatch(self, method, path), LAMBDA live :
                IF live.ok
                THEN [self |-> CacheStore(self, cache_key(method, path),
                                    [handler |-> live.value, params |-> live.params]),
                      ret |-> Found(live.value, live.params)]
                ELSE [self |-> self, ret |-> NoMatch]))

\* fn clear_cache
clear_cache(self) == [self EXCEPT !.route_cache = EmptyMap]

\* get_stats, were route_count the number of routes in the tries.
get_stats_counting_routes(self) ==
    [method_count |-> Cardinality(DOMAIN self.routers),
     route_count |->
        Cardinality(UNION {{<<m, r>> : r \in DOMAIN self.routers[m]} :
                                m \in DOMAIN self.routers}),
     cache_size |-> Cardinality(DOMAIN self.route_cache),
     cache_capacity |-> self.max_cache_size]

\* fn get_stats: route_count counts the tries, one per method.
get_stats(self) ==
    [method_count |-> Cardinality(DOMAIN self.routers),
     route_count |-> Cardinality({m \in DOMAIN self.routers : TRUE}),
     cache_size |-> Cardinality(DOMAIN self.route_cache),
     cache_capacity |-> self.max_cache_size]

----------------------------------------------------------------------------
(* The result envelope and the JSON payloads of the boundary.              *)

\* CString::new(data).unwrap_or_else(empty): a text with an interior NUL
\* becomes the empty string.
CString_new(data) ==
    IF \E i \in 1..Len(data) : data[i] = NUL THEN <<>> ELSE data

\* RouterResult::success
RouterResult_success(data) ==
    LET c_string == CString_new(data)
    IN [data |-> Ptr(c_string), len |-> Len(c_string), status |-> 0]

\* RouterResult::error, were it to allocate an empty payload.
RouterResult_error_with_payload(status) ==
    [data |-> Ptr(<<>>), len |-> 0, status |-> status]

\* RouterResult::error
RouterResult_error(status) == [data |-> NullPtr, len |-> 0, status |-> status]

OK == <<"O", "K">>

\* The members "k":"v" of a JSON object of strings, keys in byte order, the
\* last binding of a repeated key (HashMap collect, then serde_json's Map).
RECURSIVE ObjectMembers(_, _)
ObjectMembers(keys, params) ==
    IF keys = {} THEN <<>>
    ELSE LET k == CHOOSE x \in keys : \A y \in keys \ {x} : LessStr(x, y)
             last == CHOOSE i \in 1..Len(params) :
                        /\ params[i][1] = k
                        /\ \A j \in (i + 1)..Len(params) : params[j][1] # k
         IN JsonString(k) \o <<":">> \o JsonString(params[last][2])
                \o (IF keys = {k} THEN <<>> ELSE <<",">>)
                \o ObjectMembers(keys \ {k}, params)

\* json!({"handler": handler_id, "params": params as a map})
MatchJson(handler_id, params) ==
    <<"{", "\"", "h", "a", "n", "d", "l", "e", "r", "\"", ":">> \o JsonString(handler_id)
        \o <<",", "\"", "p", "a", "r", "a", "m", "s", "\"", ":", "{">>
        \o ObjectMembers({params[i][1] : i \in 1..Len(params)}, params)
        \o <<"}", "}">>

\* serde_json::to_string(&RouterStats)
StatsJson(stats) ==
    <<"{", "\"", "m", "e", "t", "h", "o", "d", "_", "c", "o", "u", "n", "t", "\"", ":">> \o Digits(stats.method_count)
        \o <<",", "\"", "r", "o", "u", "t", "e", "_", "c", "o", "u", "n", "t", "\"", ":">> \o Digits(stats.route_count)
        \o <<",", "\"", "c", "a", "c", "h", "e", "_", "s", "i", "z", "e", "\"", ":">> \o Digits(stats.cache_size)
        \o <<",", "\"", "c", "a", "c", "h", "e", "_", "c", "a", "p", "a", "c", "i", "t", "y", "\"", ":">> \o Digits(stats.cache_capacity)
        \o <<"}">>

\* json!({"added": added_count, "total": total_routes})
BatchJson(added_count, total_routes) ==
    <<"{", "\"", "a", "d", "d", "e", "d", "\"", ":">> \o Digits(added_count)
        \o <<",", "\"", "t", "o", "t", "a", "l", "\"", ":">> \o Digits(total_routes) \o <<"}">>

----------------------------------------------------------------------------
(* serde_json::from_str::<Vec<Value>> for the batch text. The parser reads *)
(* the JSON the batch inputs are written in: an array whose items are      *)
(* strings, numbers, or objects of string and number members, without      *)
(* white space; any other text is a syntax error.                          *)

IsDigit(c) == c \in {"0", "1", "2", "3", "4", "5", "6", "7", "8", "9"}

RECURSIVE DigitsEnd(_, _)
DigitsEnd(s, i) ==
    IF i <= Len(s) /\ IsDigit(s[i]) THEN DigitsEnd(s, i + 1) ELSE i

JsonValue(kind, text, fields) == [kind |-> kind, s |-> text, fields |-> fields]

ParseScalar(s, i) ==
    IF At_(s, i, Quote)
    THEN Then(ParseString(s, i), LAMBDA t :
            Parsed(JsonValue("string", t.val, EmptyMap), t.next))
    ELSE IF i >= 1 /\ i <= Len(s) /\ IsDigit(s[i])
    THEN Let(DigitsEnd(s, i), LAMBDA e :
            Parsed(JsonValue("number", SubSeq(s, i, e - 1), EmptyMap), e))
    ELSE ParseFail

\* The members of an object whose "{" has been read, up to and with its "}".
RECURSIVE ParseMembers(_, _, _, _)
ParseMembers(s, i, first, acc) ==
    IF At_(s, i, "}") /\ first THEN Parsed(acc, i + 1)
    ELSE Then(ParseString(s, i), LAMBDA k :
         Then(Expect(s, k.next, ":"), LAMBDA c :
         Then(ParseScalar(s, c.next), LAMBDA v :
            IF At_(s, v.next, ",")
            THEN ParseMembers(s, v.next + 1, FALSE, MapInsert(acc, k.val, v.val))
            ELSE Then(Expect(s, v.next, "}"), LAMBDA e :
                    Parsed(MapInsert(acc, k.val, v.val), e.next)))))

ParseItem(s, i) ==
    IF At_(s, i, "{")
    THEN Then(ParseMembers(s, i + 1, TRUE, EmptyMap), LAMBDA m :
            Parsed(JsonValue("object", <<>>, m.val), m.next))
    ELSE ParseScalar(s, i)

\* The items of an array whose "[" has been read, up to and with its "]".
RECURSIVE ParseItems(_, _, _)
ParseItems(s, i, first) ==
    IF At_(s, i, "]") /\ first THEN Parsed(<<>>, i + 1)
    ELSE Then(ParseItem(s, i), LAMBDA v :
            IF At_(s, v.next, ",")
            THEN Then(ParseItems(s, v.next + 1, FALSE), LAMBDA more :
                    Parsed(<<v.val>> \o more.val, more.next))
            ELSE Then(Expect(s, v.next, "]"), LAMBDA e :
                    Parsed(<<v.val>>, e.next)))

\* serde_json::from_str::<Vec<Value>>(json_str)
ParseRoutes(s) ==
    Let(Then(Expect(s, 1, "["), LAMBDA a : ParseItems(s, a.next, TRUE)), LAMBDA r :
        IF r.ok /\ r.next = Len(s) + 1
        THEN [ok |-> TRUE, routes |-> r.val]
        ELSE [ok |-> FALSE, routes |-> <<>>])

JsonNull == JsonValue("null", <<>>, EmptyMap)

\* route["key"]: Null unless route is an object with that member.
Index(route, key) ==
    IF route.kind = "object" /\ key \in DOMAIN route.fields
    THEN route.fields[key]
    ELSE JsonNull

\* Value::as_str
as_str(v) == IF v.kind = "string" THEN Some(v.s) ELSE None

Key_method == <<"m", "e", "t", "h", "o", "d">>

Key_path == <<"p", "a", "t", "h">>

Key_handler == <<"h", "a", "n", "d", "l", "e", "r">>

----------------------------------------------------------------------------
(* The singleton and the boundary functions. Each takes the statics ROUTER *)
(* and ROUTER_INIT and gives them back with the envelope it returns.       *)

Outcome(R, init, res) == [ROUTER |-> R, ROUTER_INIT |-> init, result |-> res]

\* get_router, were the closure run on every call.
get_router_always_new(R, init) == Some(Router_new)

\* fn get_router: the Once runs its closure on the first call only.
get_router(R, init) == IF init THEN R ELSE Some(Router_new)

router_create(R, init) ==
    Outcome(Some(Router_new), init, RouterResult_success(OK))

\* router_add_route, were the route registered before handler_id is checked.
router_add_route_late_check(R, init, method, path, handler_id) ==
    IF method.null \/ path.null \/ handler_id.null
    THEN Outcome(R, init, RouterResult_error(-1))
    ELSE IF ~to_str(method.bytes).ok THEN Outcome(R, init, RouterResult_error(-2))
    ELSE IF ~to_str(path.bytes).ok THEN Outcome(R, init, RouterResult_error(-3))
    ELSE Let(add_route(get_router(R, init)[1], to_str(method.bytes).s,
                       to_str(path.bytes).s, to_str(handler_id.bytes).s),
             LAMBDA added :
                Outcome(Some(added.self), TRUE,
                        IF ~to_str(handler_id.bytes).ok THEN RouterResult_error(-4)
                        ELSE IF added.ok THEN RouterResult_success(OK)
                        ELSE RouterResult_error(-5)))

router_add_route(R, init, method, path, handler_id) ==
    IF method.null \/ path.null \/ handler_id.null
    THEN Outcome(R, init, RouterResult_error(-1))
    ELSE IF ~to_str(method.bytes).ok THEN Outcome(R, init, RouterResult_error(-2))
    ELSE IF ~to_str(path.bytes).ok THEN Outcome(R, init, RouterResult_error(-3))
    ELSE IF ~to_str(handler_id.bytes).ok THEN Outcome(R, init, RouterResult_error(-4))
    ELSE Let(add_route(get_router(R, init)[1], to_str(method.bytes).s,
                       to_str(path.bytes).s, to_str(handler_id.bytes).s),
             LAMBDA added :
                Outcome(Some(added.self), TRUE,
                        IF added.ok THEN RouterResult_success(OK)
                        ELSE RouterResult_error(-5)))

\* serde_json::to_string of a Value does not fail: the -4 of the code is
\* never returned.
router_match(R, init, method, path) ==
    IF method.null \/ path.null
    THEN Outcome(R, init, RouterResult_error(-1))
    ELSE IF ~to_str(method.bytes).ok THEN Outcome(R, init, RouterResult_error(-2))
    ELSE IF ~to_str(path.bytes).ok THEN Outcome(R, init, RouterResult_error(-3))
    ELSE Let(match_route(get_router(R, init)[1], to_str(method.bytes).s,
                         to_str(path.bytes).s),
             LAMBDA m :
                Outcome(Some(m.self), TRUE,
                        IF m.ret.some
                        THEN RouterResult_success(MatchJson(m.ret.handler, m.ret.params))
                        ELSE RouterResult_error(-404)))

router_clear_cache(R, init) ==
    Outcome(Some(clear_cache(get_router(R, init)[1])), TRUE,
            RouterResult_success(OK))

router_get_stats(R, init) ==
    Outcome(get_router(R, init), TRUE,
            RouterResult_success(StatsJson(get_stats(get_router(R, init)[1]))))

\* One turn of the loop of router_batch_add_routes: the router and the count
\* after the route, which is skipped unless its three members are strings.
BatchStep(router, added_count, method, path, handler) ==
    IF method # None /\ path # None /\ handler # None
    THEN Let(add_route(router, method[1], path[1], handler[1]), LAMBDA a :
            [self |-> a.self,
             added_count |-> IF a.ok THEN added_count + 1 ELSE added_count])
    ELSE [self |-> router, added_count |-> added_count]

RECURSIVE BatchLoop(_, _, _)
BatchLoop(router, routes, added_count) ==
    IF routes = <<>> THEN [self |-> router, added_count |-> added_count]
    ELSE Let(BatchStep(router, added_count,
                       as_str(Index(Head(routes), Key_method)),
                       as_str(Index(Head(routes), Key_path)),
                       as_str(Index(Head(routes), Key_handler))),
             LAMBDA step : BatchLoop(step.self, Tail(routes), step.added_count))

\* The routes parsed, the loop runs and the counts are reported.
BatchRun(R, init, routes) ==
    Let(BatchLoop(get_router(R, init)[1], routes, 0), LAMBDA done :
        Outcome(Some(done.self), TRUE,
                RouterResult_success(BatchJson(done.added_count, Len(routes)))))

\* The buffer holds at least len bytes (the caller's contract).
router_batch_add_routes(R, init, routes_json, len) ==
    IF routes_json.null THEN Outcome(R, init, RouterResult_error(-1))
    ELSE Let(to_str(SubSeq(routes_json.bytes, 1, len)), LAMBDA json_str :
            IF ~json_str.ok THEN Outcome(R, init, RouterResult_error(-2))
            ELSE Let(ParseRoutes(json_str.s), LAMBDA parsed :
                    IF ~parsed.ok THEN Outcome(R, init, RouterResult_error(-3))
                    ELSE BatchRun(R, init, parsed.routes)))

----------------------------------------------------------------------------
(* The inputs the calls are made with.                                     *)

MaxBatch == 2

GET == <<"G">>

PUT == <<"P">>

Methods == {GET, PUT}

\* /u/:i, /u/n and the malformed /u/: (a parameter without a name)
Route_param == <<"/", "u", "/", ":", "i">>

Route_static == <<"/", "u", "/", "n">>

Route_bad == <<"/", "u", "/", ":">>

Routes == {Route_param, Route_static, Route_bad}

Path_new == <<"/", "u", "/", "n">>

Path_7 == <<"/", "u", "/", "7">>

Path_x == <<"/", "x">>

Paths == {Path_new, Path_7, Path_x}

Handler_a == <<"a">>

Handler_b == <<"b">>

Handlers == {Handler_a, Handler_b}

\* A text that is not UTF-8.
BadText == <<xFF>>

\* The static route under either handler, so that a second registration of
\* it can name another handler.
Registrations ==
    {<<GET, Route_param, Handler_a>>, <<GET, Route_static, Handler_a>>,
     <<GET, Route_static, Handler_b>>, <<GET, Route_bad, Handler_a>>,
     <<PUT, Route_static, Handler_a>>}

\* Each argument null or not UTF-8, alone and before or after another bad one.
BadAddRouteInputs ==
    {<<NullPtr, Ptr(Route_static), Ptr(Handler_a)>>,
     <<Ptr(GET), NullPtr, Ptr(Handler_a)>>,
     <<Ptr(GET), Ptr(Route_static), NullPtr>>,
     <<Ptr(BadText), Ptr(BadText), NullPtr>>,
     <<Ptr(BadText), Ptr(Route_static), Ptr(Handler_a)>>,
     <<Ptr(BadText), Ptr(BadText), Ptr(BadText)>>,
     <<Ptr(GET), Ptr(BadText), Ptr(Handler_a)>>,
     <<Ptr(GET), Ptr(BadText), Ptr(BadText)>>,
     <<Ptr(GET), Ptr(Route_static), Ptr(BadText)>>}

AddRouteInputs ==
    {<<Ptr(r[1]), Ptr(r[2]), Ptr(r[3])>> : r \in Registrations}
        \cup BadAddRouteInputs

BadMatchInputs ==
    {<<NullPtr, Ptr(Path_new)>>, <<Ptr(GET), NullPtr>>, <<Ptr(BadText), NullPtr>>,
     <<Ptr(BadText), Ptr(Path_new)>>, <<Ptr(BadText), Ptr(BadText)>>,
     <<Ptr(GET), Ptr(BadText)>>}

MatchInputs ==
    {<<Ptr(m), Ptr(p)>> : m \in Methods, p \in Paths} \cup BadMatchInputs

\* {"method":"m","path":"p","handler":"h"}
RouteJson(method, path, handler) ==
    <<"{", "\"", "m", "e", "t", "h", "o", "d", "\"", ":">> \o JsonString(method)
        \o <<",", "\"", "p", "a", "t", "h", "\"", ":">> \o JsonString(path)
        \o <<",", "\"", "h", "a", "n", "d", "l", "e", "r", "\"", ":">> \o JsonString(handler) \o <<"}">>

\* An entry whose method is a number.
Entry_badMethod ==
    <<"{", "\"", "m", "e", "t", "h", "o", "d", "\"", ":", "7", ",", "\"", "p", "a", "t", "h", "\"", ":", "\"", "/", "u", "/", "n", "\"", ",", "\"", "h", "a", "n", "d", "l", "e", "r", "\"", ":", "\"", "a", "\"", "}">>

BatchEntries ==
    {RouteJson(GET, Route_static, Handler_b), RouteJson(GET, Route_bad, Handler_a),
     Entry_badMethod}

RECURSIVE JoinComma(_)
JoinComma(items) ==
    IF items = <<>> THEN <<>>
    ELSE Head(items) \o (IF Len(items) > 1 THEN <<",">> ELSE <<>>)
            \o JoinComma(Tail(items))

ArrayJson(items) == <<"[">> \o JoinComma(items) \o <<"]">>

BatchArrays ==
    {ArrayJson(es) : es \in UNION {[1..n -> BatchEntries] : n \in 0..MaxBatch}}

\* Whole arrays; an array cut short by one byte, and one that is no array;
\* a null pointer; bytes that are not UTF-8.
BatchInputs ==
    {<<Ptr(a), Len(a)>> : a \in BatchArrays}
    \cup {<<Ptr(ArrayJson(<<Entry_badMethod>>)), Len(Entry_badMethod) + 1>>,
          <<Ptr(<<"7">>), 1>>,
          <<NullPtr, 0>>, <<Ptr(<<"[", xFF, "]">>), 3>>}

----------------------------------------------------------------------------
(* The calls in flight. The boundary takes no lock: a thread that calls    *)
(* router_match while another call is running reads and writes the same    *)
(* static. A match is then two steps on the router, the reads up to the    *)
(* test for room and the insert.                                           *)

MaxThreads == 2

Threads == 1..MaxThreads

Idle == [pc |-> "idle", method |-> <<>>, path |-> <<>>, ret |-> NoMatch]

\* No call is in flight, and no two calls have overlapped so far.
NoneInFlight == [threads |-> [t \in Threads |-> Idle], overlapped |-> FALSE]

\* match_route up to the insert, were there no test for room.
match_route_read_unbounded(self, method, path) ==
    Let(CacheLookup(self, cache_key(method, path)), LAMBDA hit :
        IF hit.ok
        THEN [ret |-> Found(hit.handler, hit.params), store |-> FALSE]
        ELSE Let(LiveMatch(self, method, path), LAMBDA live :
                IF live.ok
                THEN [ret |-> Found(live.value, live.params), store |-> TRUE]
                ELSE [ret |-> NoMatch, store |-> FALSE]))

\* match_route up to the test for room: the result it will return, and
\* whether it goes on to store it.
match_route_read(self, method, path) ==
    Let(CacheLookup(self, cache_key(method, path)), LAMBDA hit :
        IF hit.ok
        THEN [ret |-> Found(hit.handler, hit.params), store |-> FALSE]
        ELSE Let(LiveMatch(self, method, path), LAMBDA live :
                IF live.ok
                THEN [ret |-> Found(live.value, live.params),
                      store |-> Cardinality(DOMAIN self.route_cache)
                                    < self.max_cache_size]
                ELSE [ret |-> NoMatch, store |-> FALSE]))

\* match_route after the test: the serialized result is inserted.
match_route_write(self, method, path, ret) ==
    [self EXCEPT !.route_cache =
        MapInsert(self.route_cache, cache_key(method, path),
                  to_string([handler |-> ret.handler, params |-> ret.params]))]

----------------------------------------------------------------------------
(* The state machine: the statics, the last call made and its envelope.    *)

Call(op, method, path, handler_id, routes_json, len) ==
    [op |-> op, method |-> method, path |-> path, handler_id |-> handler_id,
     routes_json |-> routes_json, len |-> len]

NoResult == [data |-> NullPtr, len |-> 0, status |-> 0]

Init ==
    /\ ROUTER = None
    /\ ROUTER_INIT = FALSE
    /\ call = Call("none", NullPtr, NullPtr, NullPtr, NullPtr, 0)
    /\ result = NoResult
    /\ heap = <<>>
    /\ inflight = NoneInFlight

Returns(o, c) ==
    /\ ROUTER' = o.ROUTER
    /\ ROUTER_INIT' = o.ROUTER_INIT
    /\ result' = o.result
    /\ call' = c
    /\ heap' = heap
    /\ inflight' = inflight

Create ==
    Returns(router_create(ROUTER, ROUTER_INIT),
            Call("create", NullPtr, NullPtr, NullPtr, NullPtr, 0))

AddRoute(method, path, handler_id) ==
    Returns(router_add_route(ROUTER, ROUTER_INIT, method, path, handler_id),
            Call("addRoute", method, path, handler_id, NullPtr, 0))

Match(method, path) ==
    Returns(router_match(ROUTER, ROUTER_INIT, method, path),
            Call("match", method, path, NullPtr, NullPtr, 0))

ClearCache ==
    Returns(router_clear_cache(ROUTER, ROUTER_INIT),
            Call("clearCache", NullPtr, NullPtr, NullPtr, NullPtr, 0))

GetStats ==
    Returns(router_get_stats(ROUTER, ROUTER_INIT),
            Call("getStats", NullPtr, NullPtr, NullPtr, NullPtr, 0))

BatchAddRoutes(routes_json, len) ==
    Returns(router_batch_add_routes(ROUTER, ROUTER_INIT, routes_json, len),
            Call("batchAddRoutes", NullPtr, NullPtr, NullPtr, routes_json, len))

Next ==
    \/ Create
    \/ \E a \in AddRouteInputs : AddRoute(a[1], a[2], a[3])
    \/ \E a \in MatchInputs : Match(a[1], a[2])
    \/ ClearCache
    \/ GetStats
    \/ \E a \in BatchInputs : BatchAddRoutes(a[1], a[2])

Spec == Init /\ [][Next]_vars

----------------------------------------------------------------------------
(* A warm start: the state after GET /u/:i has been registered and Prefill *)
(* distinct paths /u/1001, /u/1002, ... have been matched, one by one.     *)

Prefill == 998

PrefillPath(k) == <<"/", "u", "/">> \o Digits(1000 + k)

WarmBase == add_route(Router_new, GET, Route_param, Handler_a).self

\* What match_route stores for a path matched live.
WarmEntry(path) ==
    to_string([handler |-> LiveMatch(WarmBase, GET, path).value,
               params |-> LiveMatch(WarmBase, GET, path).params])

WarmRouter ==
    [WarmBase EXCEPT !.route_cache =
        [key \in {cache_key(GET, PrefillPath(k)) : k \in 1..Prefill} |->
            WarmEntry(SubSeq(key, Len(GET) + 2, Len(key)))]]

InitWarm ==
    /\ ROUTER = Some(WarmRouter)
    /\ ROUTER_INIT = TRUE
    /\ call = Call("match", Ptr(GET), Ptr(PrefillPath(Prefill)), NullPtr, NullPtr, 0)
    /\ result = router_match(Some(WarmRouter), TRUE, Ptr(GET),
                             Ptr(PrefillPath(Prefill))).result
    /\ heap = <<>>
    /\ inflight = NoneInFlight

SpecWarm == InitWarm /\ [][Next]_vars

----------------------------------------------------------------------------
(* Threads that call router_match on the warm router with no caller-side   *)
(* lock. Each call reads, then inserts if the test for room passed, then   *)
(* returns; the steps of different threads interleave freely.              *)

\* /u/x
Path_ux == <<"/", "u", "/", "x">>

RaceInputs == {<<GET, Path_new>>, <<GET, Path_7>>, <<GET, Path_ux>>, <<PUT, Path_new>>}

Thread(t) == inflight.threads[t]

\* router_match up to the test for room in match_route.
BeginMatch(t, method, path) ==
    /\ Thread(t).pc = "idle"
    /\ inflight' =
         [threads |->
            (t :> Let(match_route_read(get_router(ROUTER, ROUTER_INIT)[1], method, path),
                       LAMBDA r : [pc |-> IF r.store THEN "insert" ELSE "return",
                                   method |-> method, path |-> path, ret |-> r.ret]))
                @@ inflight.threads,
          overlapped |-> \/ inflight.overlapped
                         \/ \E u \in Threads \ {t} : Thread(u).pc # "idle"]
    /\ UNCHANGED <<ROUTER, ROUTER_INIT, call, result, heap>>

\* The insert of a call that found room when it tested.
InsertMatch(t) ==
    /\ Thread(t).pc = "insert"
    /\ ROUTER' = Some(match_route_write(get_router(ROUTER, ROUTER_INIT)[1],
                                        Thread(t).method, Thread(t).path, Thread(t).ret))
    /\ inflight' = [inflight EXCEPT !.threads[t].pc = "return"]
    /\ UNCHANGED <<ROUTER_INIT, call, result, heap>>

\* router_match hands back the envelope.
ReturnMatch(t) ==
    /\ Thread(t).pc = "return"
    /\ call' = Call("match", Ptr(Thread(t).method), Ptr(Thread(t).path), NullPtr, NullPtr, 0)
    /\ result' = IF Thread(t).ret.some
                 THEN RouterResult_success(MatchJson(Thread(t).ret.handler,
                                                     Thread(t).ret.params))
                 ELSE RouterResult_error(-404)
    /\ inflight' = [inflight EXCEPT !.threads[t] = Idle]
    /\ UNCHANGED <<ROUTER, ROUTER_INIT, heap>>

NextRace ==
    \/ \E t \in Threads : \E a \in RaceInputs : BeginMatch(t, a[1], a[2])
    \/ \E t \in Threads : InsertMatch(t)
    \/ \E t \in Threads : ReturnMatch(t)

SpecRace == InitWarm /\ [][NextRace]_vars

----------------------------------------------------------------------------
(* A second set of inputs: routes with two parameters, declared in an      *)
(* order that is not the alphabetical one, and methods and paths that hold *)
(* the ":" the cache key is joined with.                                   *)

Method_colon == <<"G", ":", "/", "u">>

KeyMethods == {GET, Method_colon}

\* /:b/:a and /n
Route_ba == <<"/", ":", "b", "/", ":", "a">>

Route_n == <<"/", "n">>

\* /7/x, /u:/n and /n
Path_7x == <<"/", "7", "/", "x">>

Path_colon == <<"/", "u", ":", "/", "n">>

Path_n == <<"/", "n">>

KeyPaths == {Path_7x, Path_colon, Path_n}

KeyRegistrations ==
    {<<GET, Route_ba, Handler_a>>, <<GET, Route_n, Handler_a>>,
     <<Method_colon, Route_n, Handler_b>>}

KeyBatchInputs ==
    {<<Ptr(ArrayJson(<<RouteJson(Method_colon, Route_n, Handler_b)>>)),
       Len(ArrayJson(<<RouteJson(Method_colon, Route_n, Handler_b)>>))>>}

NextKeys ==
    \/ Create
    \/ \E a \in KeyRegistrations : AddRoute(Ptr(a[1]), Ptr(a[2]), Ptr(a[3]))
    \/ \E m \in KeyMethods, q \in KeyPaths : Match(Ptr(m), Ptr(q))
    \/ ClearCache
    \/ GetStats
    \/ \E a \in KeyBatchInputs : BatchAddRoutes(a[1], a[2])

SpecKeys == Init /\ [][NextKeys]_vars

----------------------------------------------------------------------------
(* The envelopes on the heap. Each boundary call boxes its RouterResult    *)
(* and hands the raw pointer to the caller; heap[p] is the allocation at   *)
(* address p: whether its data pointer is non-null, and what has become of *)
(* the envelope and of the payload. Address 0 is the null pointer.         *)

MaxEnvelopes == 2

\* Box::into_raw(RouterResult { data, len, status })
Box_into_raw(res) ==
    [data |-> ~res.data.null,
     envelope |-> "live",
     payload |-> IF res.data.null THEN "none" ELSE "live"]

\* What a deallocation makes of an allocation: a live one is freed, a freed
\* one is freed twice, and one that was never made is a wild free.
Dealloc(st) ==
    CASE st = "live" -> "freed"
      [] st = "none" -> "wild"
      [] OTHER -> "twice"

\* free_router_result, were data released without the test for null.
free_router_result_unchecked(h, p) ==
    IF p = 0 THEN {h}
    ELSE {[h EXCEPT ![p].envelope = Dealloc(h[p].envelope),
                    ![p].payload = Dealloc(h[p].payload)]}

\* fn free_router_result: the heaps the call can leave. On a live envelope
\* the box is dropped, and the payload with it when data is not null. On an
\* envelope already released the read of data is a read of freed memory: it
\* may give the old pointer or a null one.
free_router_result(h, p) ==
    IF p = 0 THEN {h}
    ELSE IF h[p].envelope = "live"
    THEN {[h EXCEPT ![p].envelope = Dealloc(h[p].envelope),
                    ![p].payload = IF h[p].data THEN Dealloc(h[p].payload)
                                   ELSE h[p].payload]}
    ELSE {[h EXCEPT ![p].envelope = Dealloc(h[p].envelope),
                    ![p].payload = IF isnull THEN h[p].payload
                                   ELSE Dealloc(h[p].payload)] :
            isnull \in BOOLEAN}

\* A boundary call whose envelope the caller keeps.
Allocates(o, c) ==
    /\ Len(heap) < MaxEnvelopes
    /\ ROUTER' = o.ROUTER
    /\ ROUTER_INIT' = o.ROUTER_INIT
    /\ result' = o.result
    /\ call' = c
    /\ heap' = Append(heap, Box_into_raw(o.result))
    /\ inflight' = inflight

\* The caller releases the envelope at address p.
Release(p) ==
    /\ \E h \in free_router_result(heap, p) : heap' = h
    /\ call' = Call("release", NullPtr, NullPtr, NullPtr, NullPtr, p)
    /\ result' = NoResult
    /\ UNCHANGED <<ROUTER, ROUTER_INIT, inflight>>

NextHeap ==
    \/ Allocates(router_create(ROUTER, ROUTER_INIT),
                 Call("create", NullPtr, NullPtr, NullPtr, NullPtr, 0))
    \/ \E a \in AddRouteInputs :
        Allocates(router_add_route(ROUTER, ROUTER_INIT, a[1], a[2], a[3]),
                  Call("addRoute", a[1], a[2], a[3], NullPtr, 0))
    \/ \E a \in MatchInputs :
        Allocates(router_match(ROUTER, ROUTER_INIT, a[1], a[2]),
                  Call("match", a[1], a[2], NullPtr, NullPtr, 0))
    \/ Allocates(router_clear_cache(ROUTER, ROUTER_INIT),
                 Call("clearCache", NullPtr, NullPtr, NullPtr, NullPtr, 0))
    \/ Allocates(router_get_stats(ROUTER, ROUTER_INIT),
                 Call("getStats", NullPtr, NullPtr, NullPtr, NullPtr, 0))
    \/ \E a \in BatchInputs :
        Allocates(router_batch_add_routes(ROUTER, ROUTER_INIT, a[1], a[2]),
                  Call("batchAddRoutes", NullPtr, NullPtr, NullPtr, a[1], a[2]))
    \/ \E p \in 0..Len(heap) : Release(p)

SpecHeap == Init /\ [][NextHeap]_vars

----------------------------------------------------------------------------
(* What the claims speak of.                                               *)

\* The router the next call works on.
Current == get_router(ROUTER, ROUTER_INIT)[1]

\* What matchRoute gives for (method, path) on a router.
Outcome_of(self, method, path) == match_route(self, method, path).ret

ArgsValid(c) ==
    /\ ~c.method.null /\ ~c.path.null /\ ~c.handler_id.null
    /\ to_str(c.method.bytes).ok /\ to_str(c.path.bytes).ok
    /\ to_str(c.handler_id.bytes).ok

\* The routes and the cache as a caller can observe them.
View == [routers |-> Current.routers, route_cache |-> Current.route_cache]

\* The route r of method m is the one the trie gives for path p.
Wins(self, m, r, p) ==
    /\ Accepts(Split(r), Split(p))
    /\ BestRoute(self.routers[m], p) = r

----------------------------------------------------------------------------
(* C1. Cache transparency: in every reachable state, for every method and  *)
(* path, matchRoute gives the same outcome as clearCache followed by       *)
(* matchRoute from that state.                                             *)
CacheTransparency ==
    \A m \in Methods, p \in Paths :
        Outcome_of(Current, m, p) = Outcome_of(clear_cache(Current), m, p)

(* C2. Capacity bound: in every reachable state the number of cache        *)
(* entries reported by stats is at most the capacity, 1000, also after     *)
(* more than 1000 distinct pairs have been matched successfully.           *)
CapacityBound ==
    /\ get_stats(Current).cache_capacity = CacheCapacity
    /\ get_stats(Current).cache_size <= get_stats(Current).cache_capacity

\* The cache is full and the last call matched a pair that is not in it.
CapacityBound_witness ==
    /\ call.op = "match"
    /\ result.status = 0
    /\ cache_key(call.method.bytes, call.path.bytes) \notin DOMAIN Current.route_cache
    /\ get_stats(Current).cache_size = CacheCapacity

(* C3. A failed addRoute (status -5) leaves the whole router state as it   *)
(* was: the method tries, the routes, the cache and so the stats, also     *)
(* when the method had no trie before the call.                            *)
FailedAddRouteNoEffect ==
    [][(call'.op = "addRoute" /\ result'.status = -5) => View' = View]_vars

(* C4. Every registered route (method, pattern, handler) and every path    *)
(* the pattern accepts (and for which the trie gives that route): matching *)
(* returns that handler, with the bindings of the pattern's parameters.    *)
RegisteredRoutesMatch ==
    \A m \in DOMAIN Current.routers :
        \A r \in DOMAIN Current.routers[m] :
            \A p \in Paths :
                Wins(Current, m, r, p) =>
                    Outcome_of(Current, m, p)
                        = Found(Current.routers[m][r], Bindings(Split(r), Split(p)))

(* C5. Precedence: when a static route and a named-parameter route of one  *)
(* method both accept a path, matching the path returns the static         *)
(* route's handler, whatever the order of registration and the matches     *)
(* made in between.                                                        *)
StaticPrecedence ==
    \A m \in DOMAIN Current.routers :
        \A p \in Paths :
            \A r \in Candidates(Current.routers[m], p) :
                (/\ \A i \in 1..Len(Split(r)) : Kind(Split(r)[i]) = "static"
                 /\ \E q \in Candidates(Current.routers[m], p) :
                        \E i \in 1..Len(Split(q)) : Kind(Split(q)[i]) = "param")
                    => /\ Outcome_of(Current, m, p).some
                       /\ Outcome_of(Current, m, p).handler = Current.routers[m][r]

(* C6. Registering an already registered (method, pattern) with another    *)
(* handler returns -5, and every route registered before, that one too,    *)
(* keeps its handler and every match its outcome.                          *)
IsDuplicate(c) ==
    /\ c.op = "addRoute"
    /\ ArgsValid(c)
    /\ c.method.bytes \in DOMAIN Current.routers
    /\ c.path.bytes \in DOMAIN Current.routers[c.method.bytes]
    /\ Current.routers[c.method.bytes][c.path.bytes] # c.handler_id.bytes

\* C6: a duplicate registration returns -5 and changes no route and no match.
DuplicateRejected ==
    [][IsDuplicate(call')
        => /\ result'.status = -5
           /\ Current'.routers = Current.routers
           /\ \A m \in Methods, p \in Paths :
                Outcome_of(Current', m, p) = Outcome_of(Current, m, p)]_vars

\* A call that named a registered route with another handler was refused.
DuplicateRejected_witness ==
    /\ IsDuplicate(call)
    /\ result.status = -5

(* C7. Batch partial success: a well-formed array of N entries is         *)
(* processed entry by entry; a malformed, unparsable or conflicting entry  *)
(* is skipped; the call returns 0 with total = N and added = the number of *)
(* entries registered; and every entry counted in added is matchable to    *)
(* its handler afterwards.                                                 *)
EntriesOf(c) == ParseRoutes(SubSeq(c.routes_json.bytes, 1, c.len)).routes

WellFormed(e) ==
    /\ as_str(Index(e, Key_method)) # None
    /\ as_str(Index(e, Key_path)) # None
    /\ as_str(Index(e, Key_handler)) # None

\* The (method, shape) pairs a router holds.
Registered(self) ==
    UNION {{<<m, Shape(r)>> : r \in DOMAIN self.routers[m]} : m \in DOMAIN self.routers}

Registrable(reg, e) ==
    /\ WellFormed(e)
    /\ ValidRoute(Index(e, Key_path).s)
    /\ <<Index(e, Key_method).s, Shape(Index(e, Key_path).s)>> \notin reg

\* The number of entries that register, in order, each against the routes
\* held when its turn comes.
RECURSIVE CountAdded(_, _)
CountAdded(reg, entries) ==
    IF entries = <<>> THEN 0
    ELSE IF Registrable(reg, Head(entries))
    THEN 1 + CountAdded(reg \cup {<<Index(Head(entries), Key_method).s,
                                     Shape(Index(Head(entries), Key_path).s)>>},
                        Tail(entries))
    ELSE CountAdded(reg, Tail(entries))

\* The entry was not registered before the step and is after it.
AddedByStep(e) ==
    /\ WellFormed(e)
    /\ <<Index(e, Key_method).s, Shape(Index(e, Key_path).s)>> \notin Registered(Current)
    /\ Index(e, Key_method).s \in DOMAIN Current'.routers
    /\ Index(e, Key_path).s \in DOMAIN Current'.routers[Index(e, Key_method).s]
    /\ Current'.routers[Index(e, Key_method).s][Index(e, Key_path).s]
            = Index(e, Key_handler).s

Matchable(self, m, r, h) ==
    \A p \in Paths :
        Wins(self, m, r, p) =>
            Outcome_of(self, m, p) = Found(h, Bindings(Split(r), Split(p)))

\* The counts alone: status 0 comes with total = N and added = the number of
\* entries that register.
BatchCounts ==
    [][(call'.op = "batchAddRoutes" /\ result'.status = 0)
        => result'.data.bytes
            = BatchJson(CountAdded(Registered(Current), EntriesOf(call')),
                        Len(EntriesOf(call')))]_vars

\* C7: the counts are right and every entry the batch added matches to its
\* handler in the state the batch leaves.
BatchPartialSuccess ==
    [][(call'.op = "batchAddRoutes" /\ result'.status = 0)
        => /\ result'.data.bytes
                = BatchJson(CountAdded(Registered(Current), EntriesOf(call')),
                            Len(EntriesOf(call')))
           /\ \A i \in 1..Len(EntriesOf(call')) :
                AddedByStep(EntriesOf(call')[i]) =>
                    Matchable(Current', Index(EntriesOf(call')[i], Key_method).s,
                              Index(EntriesOf(call')[i], Key_path).s,
                              Index(EntriesOf(call')[i], Key_handler).s)]_vars

(* C8. Input errors come before any mutation: a call that returns an       *)
(* input-error status (addRoute: -1 for a null argument, then -2, -3, -4   *)
(* for invalid text in method, path, handlerId, checked in that order;     *)
(* match: -1, -2, -3; batchAddRoutes: -1 null, -2 invalid encoding, -3     *)
(* malformed array) leaves the routes and the cache exactly as they were.  *)
InputError(c, r) ==
    \/ c.op = "addRoute" /\ r.status \in {-1, -2, -3, -4}
    \/ c.op = "match" /\ r.status \in {-1, -2, -3}
    \/ c.op = "batchAddRoutes" /\ r.status \in {-1, -2, -3}

\* The input-error status the arguments of a call ask for, 0 if none.
InputStatus(c) ==
    CASE c.op = "addRoute" ->
            IF c.method.null \/ c.path.null \/ c.handler_id.null THEN -1
            ELSE IF xFF \in {c.method.bytes[i] : i \in 1..Len(c.method.bytes)} THEN -2
            ELSE IF xFF \in {c.path.bytes[i] : i \in 1..Len(c.path.bytes)} THEN -3
            ELSE IF xFF \in {c.handler_id.bytes[i] : i \in 1..Len(c.handler_id.bytes)}
                 THEN -4
            ELSE 0
      [] c.op = "match" ->
            IF c.method.null \/ c.path.null THEN -1
            ELSE IF xFF \in {c.method.bytes[i] : i \in 1..Len(c.method.bytes)} THEN -2
            ELSE IF xFF \in {c.path.bytes[i] : i \in 1..Len(c.path.bytes)} THEN -3
            ELSE 0
      [] c.op = "batchAddRoutes" ->
            IF c.routes_json.null THEN -1
            ELSE IF xFF \in {c.routes_json.bytes[i] : i \in 1..c.len} THEN -2
            ELSE IF SubSeq(c.routes_json.bytes, 1, c.len) \notin BatchArrays THEN -3
            ELSE 0
      [] OTHER -> 0

\* C8: the status is that of the first failing check, and a call that returns
\* an input error leaves the statics as they were.
InputErrorsBeforeMutation ==
    /\ [](InputStatus(call) # 0 => result.status = InputStatus(call))
    /\ [](InputError(call, result) => result.status = InputStatus(call))
    /\ [][InputError(call', result')
            => ROUTER' = ROUTER /\ ROUTER_INIT' = ROUTER_INIT]_vars

\* A call refused for its last argument, on a router that holds routes and
\* cached results.
InputErrorsBeforeMutation_witness ==
    /\ call.op = "addRoute"
    /\ result.status = -4
    /\ ROUTER # None
    /\ DOMAIN Current.routers # {}
    /\ DOMAIN Current.route_cache # {}

(* C9. Envelope invariant: an envelope has a payload if and only if its    *)
(* status is 0; with any other status (-1, -2, -3, -4, -5, -404) the       *)
(* payload is null, the length 0, and no payload was allocated.            *)
EnvelopeInvariant ==
    call.op # "none" =>
        /\ result.status \in {0, -1, -2, -3, -4, -5, -404}
        /\ ~result.data.null <=> result.status = 0
        /\ result.status # 0 =>
                result.data.null /\ result.data.bytes = <<>> /\ result.len = 0
        /\ result.status = 0 => result.len = Len(result.data.bytes)

\* Envelopes of a failure have been returned.
EnvelopeInvariant_witness ==
    /\ call.op = "match"
    /\ result.status = -404
    /\ result.data.null

(* C10. create resets the router: right after create, whatever came        *)
(* before, no route is registered and the cache is empty, so every match   *)
(* returns -404 and stats reports 0 methods, 0 routes, 0 cached, capacity  *)
(* 1000, until the next registration.                                      *)
Fresh ==
    /\ get_stats(Current)
        = [method_count |-> 0, route_count |-> 0, cache_size |-> 0,
           cache_capacity |-> 1000]
    /\ \A m \in Methods, p \in Paths :
            router_match(ROUTER, ROUTER_INIT, Ptr(m), Ptr(p)).result.status = -404

\* No route is registered by the step.
NoRegistration == Registered(Current') = Registered(Current)

\* C10: the state create leaves is fresh, and so is the state after the next
\* call when that call registers no route.
CreateResets ==
    /\ [](call.op = "create" => ROUTER # None /\ Fresh)
    /\ [][(call.op = "create" /\ NoRegistration) => Fresh']_vars

(* C11. Fill-once-then-freeze: once the cache holds cacheCapacity entries, *)
(* a successful match of a pair that is not in the cache returns the live  *)
(* result and leaves the cache as it is; the entries stay until clearCache *)
(* or create.                                                              *)
Full(self) == Cardinality(DOMAIN self.route_cache) >= self.max_cache_size

\* The call is a successful match of a pair the cache did not hold.
UncachedHit(c, r) ==
    /\ c.op = "match"
    /\ r.status = 0
    /\ cache_key(c.method.bytes, c.path.bytes) \notin DOMAIN Current.route_cache

FillOnceThenFreeze ==
    /\ [][(Full(Current) /\ UncachedHit(call', result'))
            => /\ Current'.route_cache = Current.route_cache
               /\ LiveMatch(Current, call'.method.bytes, call'.path.bytes).ok
               /\ result'.data.bytes
                    = MatchJson(LiveMatch(Current, call'.method.bytes,
                                          call'.path.bytes).value,
                                LiveMatch(Current, call'.method.bytes,
                                          call'.path.bytes).params)]_vars
    /\ [][(Full(Current) /\ call'.op \notin {"clearCache", "create"})
            => Current'.route_cache = Current.route_cache]_vars

\* On a full cache, /u/7 was matched live and was not stored.
FillOnceThenFreeze_witness ==
    /\ Full(Current)
    /\ call.op = "match"
    /\ call.path.bytes = Path_7
    /\ result.status = 0
    /\ cache_key(call.method.bytes, Path_7) \notin DOMAIN Current.route_cache

(* C12. Route mutation never touches the cache: addRoute and              *)
(* batchAddRoutes, successful or failed, leave every cache entry and the   *)
(* cache size unchanged; clear_cache is the only operation that removes    *)
(* cache entries, and it removes all of them.                              *)
\* The step keeps every cache entry it found.
KeepsEntries ==
    \A k \in DOMAIN Current.route_cache :
        /\ k \in DOMAIN Current'.route_cache
        /\ Current'.route_cache[k] = Current.route_cache[k]

\* C12 as stated: no operation but clearCache removes an entry.
OnlyClearCacheRemoves ==
    /\ [][call'.op \in {"addRoute", "batchAddRoutes"}
            => Current'.route_cache = Current.route_cache]_vars
    /\ [][call'.op # "clearCache" => KeepsEntries]_vars
    /\ [][call'.op = "clearCache" => Current'.route_cache = EmptyMap]_vars

\* C12 amended: no operation but clearCache and create removes an entry, and
\* each of the two removes all of them.
RouteMutationKeepsCache ==
    /\ [][call'.op \in {"addRoute", "batchAddRoutes"}
            => Current'.route_cache = Current.route_cache]_vars
    /\ [][call'.op \notin {"clearCache", "create"} => KeepsEntries]_vars
    /\ [][call'.op \in {"clearCache", "create"}
            => Current'.route_cache = EmptyMap]_vars

\* A route was registered while the cache held results.
RouteMutationKeepsCache_witness ==
    /\ call.op = "addRoute"
    /\ result.status = 0
    /\ DOMAIN Current.route_cache # {}

(* C13. Not-found: matching, with valid non-null inputs, a method for     *)
(* which no route is registered (also on a router never initialized)       *)
(* returns status -404 with no payload, never an input-error status.       *)
ValidMatchArgs(c) ==
    /\ c.op = "match"
    /\ ~c.method.null /\ ~c.path.null
    /\ to_str(c.method.bytes).ok /\ to_str(c.path.bytes).ok

\* The methods that have a route.
RegisteredMethods(self) == {mr[1] : mr \in Registered(self)}

UnregisteredMethodNotFound ==
    [][(ValidMatchArgs(call') /\ call'.method.bytes \notin RegisteredMethods(Current))
        => /\ result'.status = -404
           /\ result'.data.null
           /\ result'.len = 0]_vars

(* C14. Release safety: release(null) changes nothing; releasing an error *)
(* envelope frees the envelope only; releasing a success envelope frees    *)
(* its payload and the envelope. When the caller releases every envelope   *)
(* exactly once, no payload is freed twice, none is freed that was never   *)
(* allocated, and none stays allocated; release never changes the routes   *)
(* or the cache.                                                           *)
\* No envelope has been released more than once.
ReleasedAtMostOnce ==
    \A p \in 1..Len(heap) : heap[p].envelope \in {"live", "freed"}

ReleaseSafety ==
    /\ [][(call'.op = "release" /\ call'.len = 0) => heap' = heap]_vars
    /\ [][call'.op = "release"
            => ROUTER' = ROUTER /\ ROUTER_INIT' = ROUTER_INIT]_vars
    /\ [](ReleasedAtMostOnce =>
            \A p \in 1..Len(heap) :
                /\ ~heap[p].data => heap[p].payload = "none"
                /\ heap[p].data =>
                        heap[p].payload
                            = (IF heap[p].envelope = "live" THEN "live" ELSE "freed"))

\* An error envelope and a success envelope have each been released once.
ReleaseSafety_witness ==
    /\ ReleasedAtMostOnce
    /\ \E p \in 1..Len(heap) :
            heap[p].envelope = "freed" /\ ~heap[p].data /\ heap[p].payload = "none"
    /\ \E p \in 1..Len(heap) :
            heap[p].envelope = "freed" /\ heap[p].data /\ heap[p].payload = "freed"

(* C15. stats().routeCount is the number of methods that have a trie, not *)
(* the number of routes: in every reachable state routeCount = methodCount *)
(* and registering a further route under a method that has a trie leaves   *)
(* routeCount as it was.                                                    *)
RouteCountIsMethodCount ==
    /\ [](/\ get_stats(Current).route_count = get_stats(Current).method_count
          /\ get_stats(Current).route_count = Cardinality(DOMAIN Current.routers)
          /\ call.op = "getStats" =>
                result.data.bytes = StatsJson(get_stats(Current)))
    /\ [][(call'.op = "addRoute" /\ ArgsValid(call')
                /\ call'.method.bytes \in DOMAIN Current.routers)
            => get_stats(Current').route_count = get_stats(Current).route_count]_vars

\* Stats were asked of a router with two routes under one method.
RouteCountIsMethodCount_witness ==
    /\ call.op = "getStats"
    /\ \E m \in DOMAIN Current.routers : Cardinality(DOMAIN Current.routers[m]) >= 2
    /\ get_stats(Current).route_count = 1

(* C16. The params matchRoute returns are the (name, value) pairs in the  *)
(* order in which the pattern declares its parameters, not in alphabetical *)
(* order, and a result served from the cache equals the live result that   *)
(* was stored under the key: same handlerId, same pairs, same order.       *)
\* The names of a pattern's parameters, in the order of their declaration.
RECURSIVE ParamNames(_)
ParamNames(psegs) ==
    IF psegs = <<>> THEN <<>>
    ELSE (IF Kind(Head(psegs)) = "static" THEN <<>> ELSE <<Tail(Head(psegs))>>)
            \o ParamNames(Tail(psegs))

NamesOf(params) == [i \in 1..Len(params) |-> params[i][1]]

KeyOf(c) == cache_key(c.method.bytes, c.path.bytes)

ParamsInDeclarationOrder ==
    /\ [][(ValidMatchArgs(call') /\ result'.status = 0
                /\ KeyOf(call') \notin DOMAIN Current.route_cache)
            => /\ NamesOf(Outcome_of(Current, call'.method.bytes, call'.path.bytes).params)
                    = ParamNames(Split(BestRoute(Current.routers[call'.method.bytes],
                                                 call'.path.bytes)))
               /\ KeyOf(call') \in DOMAIN Current'.route_cache
                    => Outcome_of(Current', call'.method.bytes, call'.path.bytes)
                        = Outcome_of(Current, call'.method.bytes, call'.path.bytes)]_vars
    /\ [](\A k \in DOMAIN Current.route_cache :
            /\ from_str(Current.route_cache[k]).ok
            /\ to_string([handler |-> from_str(Current.route_cache[k]).handler,
                          params |-> from_str(Current.route_cache[k]).params])
                = Current.route_cache[k])

\* /7/x was matched against /:b/:a and is served from the cache, b before a.
ParamsInDeclarationOrder_witness ==
    /\ call.op = "match"
    /\ call.method.bytes = GET
    /\ call.path.bytes = Path_7x
    /\ KeyOf(call) \in DOMAIN Current.route_cache
    /\ Outcome_of(Current, GET, Path_7x)
        = Found(Handler_a, << <<<<"b">>, <<"7">>>>, <<<<"a">>, <<"x">>>> >>)

(* C17. Method isolation under the composite cache key: the cache never   *)
(* serves one (method, path) pair the entry stored for another, so a match *)
(* of (m, p) returns only a handlerId of a route registered under m, also  *)
(* when the method or the path holds the ":" of the key.                   *)
HandlersOf(self, m) ==
    IF m \in DOMAIN self.routers
    THEN {self.routers[m][r] : r \in DOMAIN self.routers[m]}
    ELSE {}

MethodIsolation ==
    \A m \in KeyMethods, q \in KeyPaths :
        Outcome_of(Current, m, q).some
            => Outcome_of(Current, m, q).handler \in HandlersOf(Current, m)

(* C18. A not-found outcome is never memoized, and a match that finds no  *)
(* route leaves routes and cache unchanged: if match(m, p) returns         *)
(* not-found and a route under m whose pattern accepts p is then           *)
(* registered, the next match(m, p) returns that route's handler, with no  *)
(* clearCache in between.                                                  *)
\* The first step leaves the router as the not-found match found it; the
\* second is the registration made in a state where match(m, p) is not-found.
NotFoundNotMemoized ==
    /\ [][(call'.op = "match" /\ result'.status = -404)
            => /\ Current'.routers = Current.routers
               /\ Current'.route_cache = Current.route_cache
               /\ KeyOf(call') \notin DOMAIN Current'.route_cache]_vars
    /\ [][(call'.op = "addRoute" /\ result'.status = 0)
            => \A q \in Paths \cup KeyPaths :
                (/\ ~Outcome_of(Current, call'.method.bytes, q).some
                 /\ Accepts(Split(call'.path.bytes), Split(q)))
                    => Outcome_of(Current', call'.method.bytes, q)
                        = Found(call'.handler_id.bytes,
                                Bindings(Split(call'.path.bytes), Split(q)))]_vars

\* /u/:i has just been registered; it is the only route of its method that
\* accepts /u/7, which is not in the cache and now matches.
NotFoundNotMemoized_witness ==
    /\ call.op = "addRoute"
    /\ result.status = 0
    /\ call.path.bytes = Route_param
    /\ Candidates(Current.routers[call.method.bytes], Path_7) = {Route_param}
    /\ cache_key(call.method.bytes, Path_7) \notin DOMAIN Current.route_cache
    /\ Outcome_of(Current, call.method.bytes, Path_7).some

(* C19. Lazy initialization never discards state: the one-time lazy       *)
(* creation of the singleton replaces an empty router only, also when      *)
(* create was called before it; routes and cache entries are discarded by  *)
(* create only (and cache entries by clearCache), never by an implicit     *)
(* re-initialization.                                                      *)
\* Every route and its handler, and every cache entry, of the router R holds
\* is in the router S holds.
Keeps(R, S, cache_too) ==
    R # None =>
        /\ S # None
        /\ \A m \in DOMAIN R[1].routers :
            /\ m \in DOMAIN S[1].routers
            /\ \A r \in DOMAIN R[1].routers[m] :
                /\ r \in DOMAIN S[1].routers[m]
                /\ S[1].routers[m][r] = R[1].routers[m][r]
        /\ cache_too =>
            \A k \in DOMAIN R[1].route_cache :
                /\ k \in DOMAIN S[1].route_cache
                /\ S[1].route_cache[k] = R[1].route_cache[k]

LazyInitKeepsState ==
    /\ [](~ROUTER_INIT => ROUTER \in {None, Some(Router_new)})
    /\ [][ROUTER_INIT => ROUTER_INIT']_vars
    /\ [][call'.op # "create"
            => Keeps(ROUTER, ROUTER', call'.op # "clearCache")]_vars

\* The singleton was made lazily and holds a route and a cached result.
LazyInitKeepsState_witness ==
    /\ ROUTER_INIT
    /\ ROUTER # None
    /\ call.op \notin {"create", "clearCache"}
    /\ \E m \in DOMAIN ROUTER[1].routers : DOMAIN ROUTER[1].routers[m] # {}
    /\ DOMAIN ROUTER[1].route_cache # {}

\* Two steps of match_route done back to back are match_route.
SplitIsMatchRoute ==
    \A a \in RaceInputs :
        Let(match_route_read(Current, a[1], a[2]), LAMBDA r :
            /\ match_route(Current, a[1], a[2]).ret = r.ret
            /\ match_route(Current, a[1], a[2]).self =
                 IF r.store THEN match_route_write(Current, a[1], a[2], r.ret)
                 ELSE Current)

\* C20: as long as no call has begun while another was in flight, the cache
\* holds at most max_cache_size entries (and the two steps of a match are
\* match_route); the bound rests on that alone, for two calls that both test
\* for room before either inserts leave the cache above it.
SerializedCallsKeepBound ==
    ~inflight.overlapped =>
        /\ Cardinality(DOMAIN Current.route_cache) <= Current.max_cache_size
        /\ SplitIsMatchRoute

\* Two calls for distinct uncached keys have interleaved and both stored:
\* the cache is above its capacity.
SerializedCallsKeepBound_witness ==
    /\ inflight.overlapped
    /\ Cardinality(DOMAIN Current.route_cache) = Current.max_cache_size + 1
    /\ \A t \in Threads : Thread(t).pc = "idle"
    /\ call.op = "match"
    /\ result.status = 0

============================================================================
